---- MODULE Spec2Model ----
(***************************************************************************)
(* The apartment registry pipeline of jtrimind/my-apartement: the list     *)
(* fetcher (get_list.py) and the incremental detail fetcher                *)
(* (get_detail.py), which communicate through apt_list.csv and             *)
(* apt_detail.csv.  The HTTP endpoints are the environment: every request  *)
(* draws its outcome from a bounded set of responses.                      *)
(*                                                                         *)
(* Spec      the detail fetcher, run repeatedly over a fixed apt_list.csv  *)
(* SpecList  one run of the list fetcher                                   *)
(***************************************************************************)
EXTENDS Integers, Sequences, FiniteSets, TLC

\* ------------------------------------------------------------------ bounds
MaxIds == 3        \* complexes that may be listed in apt_list.csv
MaxRuns == 2       \* runs of the detail fetcher in one behaviour
MaxLimit == 2      \* largest --limit value tried
MaxNegLimit == 1   \* --limit values down to -MaxNegLimit are tried (any int parses)
MaxTotal == 250    \* largest totalCount the list endpoint declares
MaxPages == 3      \* page requests the list endpoint answers in one run

\* ------------------------------------------------------- program constants
num_of_rows == 100 \* page size requested by the list fetcher

\* ------------------------------------------------------------- csv cells
\* A cell of a csv file: the text of field f of complex c.  Header cells
\* (field names), the empty string and the reader's None have c = 0.
Cell(f, c) == [f |-> f, c |-> c]
Hdr(f) == Cell(f, 0)
Blank == Cell("", 0)
NoneVal == Cell("None", 0)
Code(c) == Cell("kaptCode", c)

NoFile == [exists |-> FALSE, rows |-> <<>>]
File(rows) == [exists |-> TRUE, rows |-> rows]

Range(s) == {s[k] : k \in 1..Len(s)}
Min(a, b) == IF a < b THEN a ELSE b
Max(a, b) == IF a > b THEN a ELSE b

VARIABLES
  apt_list_csv,    \* apt_list.csv: data rows, one list record each
  apt_detail_csv,  \* apt_detail.csv: all rows, the first is read as header
  \* --- detail fetcher (get_detail.main)
  pc,              \* "idle" | "loop" | "done" | "crashed"
  limit,           \* args.limit of the current run
  apt_list,        \* kaptCode values this run iterates over
  i,               \* iterations of the fetch loop completed in this run
  writer,          \* fieldnames of the DictWriter, <<>> while writer is None
  file_exists,     \* os.path.exists(output_filename) taken before the open
  detail,          \* result of the latest fetch_apt_detail call
  reqs,            \* kaptCode values requested in this run, in order
  failed,          \* kaptCode values whose fetch returned None in this run
  prevFailed,      \* the same set for the previous run
  prevLimit,       \* args.limit of the previous run
  prevGained,      \* the previous run added rows to apt_detail.csv
  fileAtStart,     \* apt_detail.csv as it was when this run started
  opened,          \* mode in which this run opened apt_detail.csv, "" if not
  runs,            \* runs started so far
  \* --- list fetcher (get_list.main)
  lpc,             \* "idle" | "paging" | "done" | "crashed"
  total_count,
  all_items,
  page_no,         \* also the number of page requests issued
  nreturned,       \* records the endpoint returned in this run
  regular          \* every page so far was a full page of the remaining records

dvars == <<pc, limit, apt_list, i, writer, file_exists, detail, reqs,
           failed, prevFailed, prevLimit, prevGained, fileAtStart, opened,
           runs>>
lvars == <<lpc, total_count, all_items, page_no, nreturned, regular>>
vars == <<apt_list_csv, apt_detail_csv, dvars, lvars>>

\* ------------------------------------------------------- list records
\* A record of the list endpoint: the idx-th record of page `page`; `extra`
\* tells whether it carries a field beyond kaptCode and kaptName.
ListRec(p, k, x) == [kind |-> "rec", page |-> p, idx |-> k, extra |-> x]
\* A dictionary key that ended up in all_items in place of a record.
KeyItem(p, k) == [kind |-> "key", page |-> p, idx |-> k, extra |-> FALSE]
kaptCode(r) == Code((r.page - 1) * num_of_rows + r.idx)
NKeys(r) == IF r.extra THEN 3 ELSE 2

\* ============================================================ get_detail.py
NoLimit == [set |-> FALSE, n |-> 0]
Limit(n) == [set |-> TRUE, n |-> n]
Limits == {NoLimit} \cup {Limit(n) : n \in (-MaxNegLimit)..MaxLimit}

\* Key orders a detail item may arrive with.
Shapes == { <<"kaptCode", "kaptName">>,
            <<"kaptName", "kaptCode">>,
            <<"kaptCode">> }

None == [kind |-> "None", keys |-> <<>>, code |-> 0]
Item(s, c) == [kind |-> "item", keys |-> s, code |-> c]
\* A truthy item that is not a dict (a list or a string).
Malformed(c) == [kind |-> "malformed", keys |-> <<>>, code |-> c]

\* fetch_apt_detail: what a call for kaptCode c may return.  Connection
\* failure, timeout, bad status, undecodable JSON and an empty item all give
\* None; anything else under response.body.item is returned as it is.
fetch_apt_detail(c) ==
  {None, Malformed(c)} \cup {Item(s, c) : s \in Shapes}

\* csv.DictReader over a file: the first row gives the field names.
HasColumn(f, name) ==
  Len(f.rows) >= 1 /\ \E k \in 1..Len(f.rows[1]) : f.rows[1][k] = Hdr(name)
ColIndex(f, name) ==
  CHOOSE k \in 1..Len(f.rows[1]) : f.rows[1][k] = Hdr(name)
RowGet(f, r, name) ==
  IF ColIndex(f, name) <= Len(f.rows[r])
    THEN f.rows[r][ColIndex(f, name)] ELSE NoneVal
\* row['kaptCode'] raises KeyError on the first data row of a file whose
\* first row has no kaptCode cell.
ReadKeyError(f) ==
  f.exists /\ Len(f.rows) >= 2 /\ ~HasColumn(f, "kaptCode")
processed_codes(f) ==
  IF ~f.exists \/ Len(f.rows) < 2 \/ ~HasColumn(f, "kaptCode") THEN {}
  ELSE {RowGet(f, r, "kaptCode") : r \in 2..Len(f.rows)}

\* The filter of line 67 left out: every row of apt_list.csv is kept.
Unprocessed_NoSkip(rows, done) == [k \in 1..Len(rows) |-> kaptCode(rows[k])]

\* The rows of apt_list.csv whose kaptCode is not processed, in file order.
RECURSIVE Unprocessed(_, _)
Unprocessed(rows, done) ==
  IF rows = <<>> THEN <<>>
  ELSE IF kaptCode(Head(rows)) \notin done
    THEN <<kaptCode(Head(rows))>> \o Unprocessed(Tail(rows), done)
    ELSE Unprocessed(Tail(rows), done)

\* Python's s[:n].
PySlice(s, n) ==
  IF n >= 0 THEN SubSeq(s, 1, Min(n, Len(s)))
  ELSE SubSeq(s, 1, Max(Len(s) + n, 0))

\* `if args.limit: apt_list = apt_list[:args.limit]`
ApplyLimit(s, lim) ==
  IF lim.set /\ lim.n # 0 THEN PySlice(s, lim.n) ELSE s

\* The output opened for writing whether or not it exists.
OpenMode_AlwaysWrite(exists) == "w"

\* 'a' if file_exists else 'w'
OpenMode(exists) == IF exists THEN "a" ELSE "w"
\* The file right after open(): 'w' creates or truncates, 'a' keeps.
Opened(f, mode) == IF mode = "a" /\ f.exists THEN f ELSE File(<<>>)

\* DictWriter.writerow: ValueError when the dict has a key outside fieldnames
\* (extrasaction='raise'); fields the dict lacks are written as ''.
\* A writer that ignores the keys outside fieldnames (extrasaction='ignore').
WrongFields_Ignore(d, fieldnames) == {}

WrongFields(d, fieldnames) == Range(d.keys) \ Range(fieldnames)
DictToList(d, fieldnames) ==
  [k \in 1..Len(fieldnames) |->
     IF fieldnames[k] \in Range(d.keys) THEN Cell(fieldnames[k], d.code)
     ELSE Blank]
HeaderRow(fieldnames) == [k \in 1..Len(fieldnames) |-> Hdr(fieldnames[k])]

Append1(f, row) == File(Append(f.rows, row))

\* main, lines 42-87: arguments, input check, skip-list, filter, limit, open.
StartRun(lim) ==
  /\ pc \in {"idle", "done", "crashed"}
  /\ runs < MaxRuns
  /\ runs' = runs + 1
  /\ limit' = lim
  /\ prevLimit' = limit
  /\ prevFailed' = failed
  /\ prevGained' = (Len(apt_detail_csv.rows) > Len(fileAtStart.rows))
  /\ fileAtStart' = apt_detail_csv
  /\ i' = 0 /\ writer' = <<>> /\ detail' = None
  /\ reqs' = <<>> /\ failed' = {}
  /\ IF ~apt_list_csv.exists
       THEN \* "apt_list.csv not found": return
            /\ pc' = "done" /\ apt_list' = <<>> /\ opened' = ""
            /\ file_exists' = file_exists
            /\ UNCHANGED apt_detail_csv
     ELSE IF ReadKeyError(apt_detail_csv)
       THEN \* KeyError while building processed_codes
            /\ pc' = "crashed" /\ apt_list' = <<>> /\ opened' = ""
            /\ file_exists' = file_exists
            /\ UNCHANGED apt_detail_csv
     ELSE LET todo == Unprocessed(apt_list_csv.rows,
                                  processed_codes(apt_detail_csv))
          IN IF todo = <<>>
               THEN \* nothing to do: return before the file is opened
                    /\ pc' = "done" /\ apt_list' = <<>> /\ opened' = ""
                    /\ file_exists' = file_exists
                    /\ UNCHANGED apt_detail_csv
               ELSE /\ apt_list' = ApplyLimit(todo, lim)
                    /\ file_exists' = apt_detail_csv.exists
                    /\ opened' = OpenMode(apt_detail_csv.exists)
                    /\ apt_detail_csv' =
                         Opened(apt_detail_csv, OpenMode(apt_detail_csv.exists))
                    \* a limit may leave nothing to iterate over
                    /\ pc' = IF ApplyLimit(todo, lim) = <<>>
                               THEN "done" ELSE "loop"
  /\ UNCHANGED <<apt_list_csv, lvars>>

\* After an iteration that did not raise: next identifier, or line 120.
AfterIteration(k, list) == IF k = Len(list) THEN "done" ELSE "loop"

\* One iteration of the loop, lines 89-118, for the outcome d of the request.
FetchStep(d) ==
  /\ pc = "loop"
  /\ i < Len(apt_list)
  /\ d \in fetch_apt_detail(apt_list[i + 1].c)
  /\ i' = i + 1
  /\ detail' = d
  /\ reqs' = Append(reqs, apt_list[i + 1])
  /\ failed' = IF d = None THEN failed \cup {apt_list[i + 1]} ELSE failed
  /\ CASE d.kind = "None" ->
            /\ pc' = AfterIteration(i + 1, apt_list)
            /\ UNCHANGED <<writer, apt_detail_csv>>
       [] d.kind = "malformed" ->
            \* detail.keys() / rowdict.keys(): AttributeError, not caught
            /\ pc' = "crashed"
            /\ UNCHANGED <<writer, apt_detail_csv>>
       [] d.kind = "item" ->
            LET fieldnames == IF writer = <<>> THEN d.keys ELSE writer
                withHeader ==
                  IF writer = <<>> /\ ~file_exists
                    THEN Append1(apt_detail_csv, HeaderRow(fieldnames))
                    ELSE apt_detail_csv
            IN /\ writer' = fieldnames
               /\ apt_detail_csv' =
                    IF WrongFields(d, fieldnames) # {}
                      THEN withHeader   \* ValueError, swallowed
                      ELSE Append1(withHeader, DictToList(d, fieldnames))
               /\ pc' = AfterIteration(i + 1, apt_list)
  /\ UNCHANGED <<apt_list_csv, limit, apt_list, file_exists, prevFailed,
                 prevLimit, prevGained, fileAtStart, opened, runs, lvars>>

\* apt_list.csv as the detail fetcher finds it: absent, or listing the first
\* n records of the first page, n <= MaxIds (the complexes are numbered in
\* the order of the file).
ListFiles ==
  {NoFile} \cup
  {File([k \in 1..n |-> ListRec(1, k, FALSE)]) : n \in 0..MaxIds}

\* ============================================================== get_list.py
\* What fetch_apt_list may return.  Connection failure, timeout, bad status
\* and undecodable JSON give None (kind "fail"); a decoded body is returned
\* whatever its shape:
\*   "noresponse"  a dict without the 'response' key (or an empty body)
\*   "misshaped"   'response' or 'body' is not a dict, items is null, the
\*                 body is a list, or totalCount is not a number
\*   "page"        n records under items, as a list (shape "list"), as
\*                 {"item": [..]} ("wrapped") or, for one record, as
\*                 {"item": {..}} ("single"); `extra` says that the last
\*                 record has a field the others lack
Fail == [kind |-> "fail", total |-> 0, n |-> 0, shape |-> "", extra |-> FALSE]
NoResponse ==
  [kind |-> "noresponse", total |-> 0, n |-> 0, shape |-> "", extra |-> FALSE]
Misshaped ==
  [kind |-> "misshaped", total |-> 0, n |-> 0, shape |-> "", extra |-> FALSE]
Page(t, n, sh, x) ==
  [kind |-> "page", total |-> t, n |-> n, shape |-> sh, extra |-> x]

\* Records left to serve when `got` of the declared t were served already.
Rest(t, got) == Min(num_of_rows, Max(t - got, 0))
PageSizes(t, got) == {0, 1, num_of_rows, Rest(t, got)}
Pages(t, got) ==
  {Page(t, n, sh, x) : n \in PageSizes(t, got), sh \in {"list", "wrapped"},
                       x \in BOOLEAN}
  \cup {Page(t, 1, "single", x) : x \in BOOLEAN}
fetch_apt_list(t, got) == {Fail, NoResponse, Misshaped} \cup Pages(t, got)

\* The records of page p of a response.
Records(r, p) ==
  [k \in 1..r.n |-> ListRec(p, k, r.extra /\ k = r.n)]

\* Lines 53-55 and 68-70: items, then items.get('item') when items is a dict.
\* What all_items.extend(items) appends: the elements of a list, but the
\* keys of a dict.
Normalize(r, p) ==
  IF r.shape = "single"
    THEN [k \in 1..NKeys(Records(r, p)[1]) |-> KeyItem(p, k)]
    ELSE Records(r, p)

\* Lines 78-92.  Nothing is written for an empty all_items; keys() of a
\* non-dict first element raises before the file is opened; writerows stops
\* with an exception at the first element that is not a dict or that has a
\* field outside the first record's, leaving the rows before it.
BadRow(items, k) ==
  \/ items[k].kind = "key"
  \/ items[k].extra /\ ~items[1].extra
FirstBad(items) ==
  IF \E k \in 1..Len(items) : BadRow(items, k)
    THEN CHOOSE k \in 1..Len(items) :
           BadRow(items, k) /\ \A j \in 1..(k - 1) : ~BadRow(items, j)
    ELSE 0
Save(items) ==
  IF items = <<>> THEN [pc |-> "done", file |-> apt_list_csv]
  ELSE IF items[1].kind = "key" THEN [pc |-> "crashed", file |-> apt_list_csv]
  ELSE IF FirstBad(items) = 0 THEN [pc |-> "done", file |-> File(items)]
  ELSE [pc |-> "crashed",
        file |-> File(SubSeq(items, 1, FirstBad(items) - 1))]

\* `while len(all_items) < total_count`
Continue(items, t) == Len(items) < t

\* A page is regular when it carries all the records that are left, up to
\* the page size.
IsRegular(r, t, got) == r.kind = "page" /\ r.n >= 1 /\ r.n = Rest(t, got)

\* main up to the loop, lines 37-57, and lines 78-92 when the loop is not
\* entered.
FetchFirst(r) ==
  /\ lpc = "idle"
  /\ r \in fetch_apt_list(r.total, 0)
  /\ page_no' = 1
  /\ regular' = IsRegular(r, r.total, 0)
  /\ CASE r.kind \in {"fail", "noresponse"} ->
            \* "Failed to fetch the initial data."
            /\ lpc' = "done"
            /\ UNCHANGED <<total_count, all_items, nreturned, apt_list_csv>>
       [] r.kind = "misshaped" ->
            \* AttributeError / TypeError, not caught
            /\ lpc' = "crashed"
            /\ UNCHANGED <<total_count, all_items, nreturned, apt_list_csv>>
       [] r.kind = "page" ->
            /\ total_count' = r.total
            /\ nreturned' = r.n
            /\ all_items' = Normalize(r, 1)
            /\ IF Continue(Normalize(r, 1), r.total)
                 THEN lpc' = "paging" /\ UNCHANGED apt_list_csv
                 ELSE /\ lpc' = Save(Normalize(r, 1)).pc
                      /\ apt_list_csv' = Save(Normalize(r, 1)).file
  /\ UNCHANGED <<apt_detail_csv, dvars>>

\* One iteration of the loop, lines 60-76, and lines 78-92 when it is the
\* last one.
LoopStep(r) ==
  /\ lpc = "paging"
  /\ page_no < MaxPages
  /\ r \in fetch_apt_list(total_count, nreturned)
  /\ page_no' = page_no + 1
  /\ regular' = (regular /\ IsRegular(r, total_count, nreturned))
  /\ UNCHANGED total_count
  /\ CASE r.kind = "misshaped" ->
            /\ lpc' = "crashed"
            /\ UNCHANGED <<all_items, nreturned, apt_list_csv>>
       [] r.kind \in {"fail", "noresponse"} \/ (r.kind = "page" /\ r.n = 0) ->
            \* break
            /\ lpc' = Save(all_items).pc
            /\ apt_list_csv' = Save(all_items).file
            /\ UNCHANGED <<all_items, nreturned>>
       [] r.kind = "page" /\ r.n > 0 ->
            LET items == all_items \o Normalize(r, page_no + 1)
            IN /\ all_items' = items
               /\ nreturned' = nreturned + r.n
               /\ IF Continue(items, total_count)
                    THEN lpc' = "paging" /\ UNCHANGED apt_list_csv
                    ELSE /\ lpc' = Save(items).pc
                         /\ apt_list_csv' = Save(items).file
  /\ UNCHANGED <<apt_detail_csv, dvars>>

LInit ==
  /\ lpc = "idle" /\ total_count = 0 /\ all_items = <<>>
  /\ page_no = 0 /\ nreturned = 0 /\ regular = TRUE

DInit ==
  /\ pc = "idle" /\ limit = NoLimit /\ apt_list = <<>> /\ i = 0
  /\ writer = <<>> /\ file_exists = FALSE /\ detail = None
  /\ reqs = <<>> /\ failed = {} /\ prevFailed = {} /\ prevLimit = NoLimit
  /\ prevGained = FALSE
  /\ opened = "" /\ runs = 0

\* apt_detail.csv starts absent, or as the 0-byte file that a run leaves
\* behind when it creates the file and no fetch succeeds.
Init ==
  /\ apt_list_csv \in ListFiles
  /\ apt_detail_csv \in {NoFile, File(<<>>)}
  /\ fileAtStart = apt_detail_csv
  /\ DInit
  /\ LInit

Next ==
  \/ \E lim \in Limits : StartRun(lim)
  \/ \E d \in {None} \cup {Malformed(c) : c \in 1..MaxIds}
               \cup {Item(s, c) : s \in Shapes, c \in 1..MaxIds} : FetchStep(d)

Spec == Init /\ [][Next]_vars

\* One run of the list fetcher, started with no apt_list.csv on disk.
TotalCounts == 0..MaxTotal
InitList ==
  /\ apt_list_csv = NoFile
  /\ apt_detail_csv = NoFile
  /\ fileAtStart = NoFile
  /\ DInit
  /\ LInit

NextList ==
  \/ \E t \in TotalCounts : \E r \in fetch_apt_list(t, 0) : FetchFirst(r)
  \/ \E r \in fetch_apt_list(total_count, nreturned) : LoopStep(r)

SpecList == InitList /\ [][NextList]_vars

\* ================================================================ properties
RunEnded == pc \in {"done", "crashed"}
ListRunEnded == lpc \in {"done", "crashed"}
\* Rows of apt_detail.csv that hold the kaptCode of complex c in some column.
RowsOf(f, c) == {r \in 1..Len(f.rows) : Code(c) \in Range(f.rows[r])}
ListCodes == {kaptCode(apt_list_csv.rows[k]) : k \in 1..Len(apt_list_csv.rows)}

\* C1: no step of the detail fetcher, in any run and whatever the fetches
\* return, removes an identifier from the kaptCode column of apt_detail.csv:
\* the identifiers after a step include those before it.
C1_IdsOnlyGrow ==
  [][processed_codes(apt_detail_csv) \subseteq processed_codes(apt_detail_csv')]_vars

\* A second run ended after a failed fetch, over a file that already held
\* identifiers, and added more.
C1_Witness ==
  /\ pc = "done" /\ runs = 2 /\ failed # {}
  /\ processed_codes(fileAtStart) # {}
  /\ processed_codes(apt_detail_csv) # processed_codes(fileAtStart)
  /\ processed_codes(fileAtStart) \subseteq processed_codes(apt_detail_csv)

C4_FailedIsRetried ==
  /\ \A c \in failed :
       /\ Cardinality({k \in 1..Len(reqs) : reqs[k] = c}) = 1
       /\ RowsOf(apt_detail_csv, c.c) = RowsOf(fileAtStart, c.c)
  /\ (RunEnded /\ detail.kind # "malformed" /\ runs >= 2 /\ prevGained
        /\ limit = prevLimit)
       => prevFailed \subseteq Range(reqs)

\* C5 (as claimed): an item whose set of field names differs from the
\* writer's is not written, and the run goes on.
FetchedItem == pc = "loop" /\ i' = i + 1 /\ detail'.kind = "item"
C5_DifferingFieldsDropped ==
  [][(FetchedItem /\ Range(detail'.keys) # Range(writer'))
       => (apt_detail_csv' = apt_detail_csv /\ pc' # "crashed")]_vars

\* C5 (amended): an item with a field name outside the writer's is not
\* written and the run goes on; an item whose field names all are among the
\* writer's is written as one row, with the empty string under every field
\* it lacks.
C5_ExtraFieldsDropped ==
  [][FetchedItem =>
       /\ pc' # "crashed"
       /\ IF ~(Range(detail'.keys) \subseteq Range(writer'))
            THEN apt_detail_csv' = apt_detail_csv
            ELSE /\ Len(apt_detail_csv'.rows) > Len(apt_detail_csv.rows)
                 /\ LET row == apt_detail_csv'.rows[Len(apt_detail_csv'.rows)]
                    IN /\ Len(row) = Len(writer')
                       /\ \A k \in 1..Len(row) :
                            row[k] = IF writer'[k] \in Range(detail'.keys)
                                       THEN Cell(writer'[k], detail'.code)
                                       ELSE Blank]_vars

\* An item with an extra field was fetched and left out, and identifiers
\* remain to be fetched in the run.
C5_Witness ==
  /\ pc = "loop" /\ i < Len(apt_list)
  /\ detail.kind = "item"
  /\ ~(Range(detail.keys) \subseteq Range(writer))
  /\ RowsOf(apt_detail_csv, detail.code) = {}

\* C6 (as claimed, for the N that can bound a count): a run with --limit N,
\* N >= 0, issues at most N requests, for the first N unprocessed
\* identifiers of apt_list.csv.
C6_AtMostLimit ==
  (runs >= 1 /\ limit.set /\ limit.n >= 0)
    => /\ Len(reqs) <= limit.n
       /\ \A k \in 1..Len(reqs) :
            reqs[k] = Unprocessed(apt_list_csv.rows,
                                  processed_codes(fileAtStart))[k]

\* C10 (as claimed): the first row of apt_detail.csv is a header with a
\* kaptCode column, and every later row holds, under each column, the value
\* of that column's field (or the empty string), all of one complex.
C10_RowsFollowHeader ==
  Len(apt_detail_csv.rows) >= 2 =>
    LET hdr == apt_detail_csv.rows[1]
    IN /\ HasColumn(apt_detail_csv, "kaptCode")
       /\ \A k \in 1..Len(hdr) : hdr[k].c = 0
       /\ \A r \in 2..Len(apt_detail_csv.rows) :
            LET row == apt_detail_csv.rows[r]
            IN /\ Len(row) = Len(hdr)
               /\ \A k \in 1..Len(row) : row[k].f \in {hdr[k].f, ""}
               /\ RowGet(apt_detail_csv, r, "kaptCode").f = "kaptCode"

\* C3 (as claimed, for the runs in which the endpoint returned no more than
\* it declared): when the list fetcher ends, the rows of apt_list.csv are as
\* many as the smaller of the declared total and the records returned.
C3_RowsAreMinOfTotalAndReturned ==
  (ListRunEnded /\ nreturned <= total_count) =>
    Len(apt_list_csv.rows) = Min(total_count, nreturned)

\* C7 (as claimed): no response makes a run end in an unhandled error.
C7_NoUnhandledError == lpc # "crashed"

\* C8 (as claimed): when every page so far carried all the records that
\* were left, up to the page size, of a declared total T >= 1, the run ends
\* after ceil(T / page size) requests with T rows written.
C8_FullPages ==
  (ListRunEnded /\ regular /\ total_count >= 1) =>
    /\ page_no = (total_count + num_of_rows - 1) \div num_of_rows
    /\ apt_list_csv.exists
    /\ Len(apt_list_csv.rows) = total_count

\* C9 (as claimed): all_items holds one element per record returned, each a
\* whole record, and each is written as one row.
C9_ItemsAreRecords ==
  /\ Len(all_items) = nreturned
  /\ \A k \in 1..Len(all_items) : all_items[k].kind = "rec"
  /\ (lpc = "done" /\ all_items # <<>>) => apt_list_csv = File(all_items)

====
